---- MODULE Spec2Model ----
(***************************************************************************)
(* State-machine model of memory_tracer.py: the MemoryTracer class, the    *)
(* tracemalloc module it drives (the process-wide allocation tracking      *)
(* facility), the garbage collector and the log sink.                      *)
(*                                                                         *)
(* Every method call of a MemoryTracer is one atomic step (the code is     *)
(* single-threaded and synchronous).  lastCall records what the most       *)
(* recent call did: the exception it raised, if any, and the ordered list  *)
(* of the calls it made to its collaborators.                              *)
(***************************************************************************)
EXTENDS Integers, Sequences, FiniteSets

\* ------------------------------------------------------------------ bounds
MaxTop == 2            \* top is drawn from 1..MaxTop
MaxTrace == 1          \* trace is drawn from 0..MaxTrace
MaxFrames == 1         \* nframe, the traceback limit the tracers ask for
MaxBlocks == 1         \* live traced blocks per allocation site
MaxSnapshots == 3      \* snapshots taken in one run
MaxScopeDepth == 1     \* nesting of "with" blocks on one tracer

\* The MemoryTracer objects of the process.
Tracers == {"t1", "t2"}

\* A frame is <<file, line>>; an allocation site is its call stack, most
\* recent frame first.
Sites == { << <<1, 10>>, <<2, 30>> >>,
           << <<2, 30>> >> }

\* Bytes of one block allocated at a site.
BlockSize(site) ==
    IF site = << <<1, 10>>, <<2, 30>> >> THEN 1024 ELSE 2560

NoTraces == [s \in Sites |-> 0]

\* Python's None in _start / _prev: the absent snapshot.
None == [id |-> 0, traces |-> NoTraces, traceback_limit |-> 0]

VARIABLES
    constructed,   \* the MemoryTracer objects the program has constructed
    workload,      \* the allocation sites the traced program reaches
    top, trace, nframe, gccollect, disabled,   \* MemoryTracer attributes
    _start,        \* per tracer: starting snapshot, or None
    _prev,         \* per tracer: last saved snapshot, or None
    tracing,       \* tracemalloc.is_tracing()
    frames,        \* traceback limit tracemalloc was started with
    traces,        \* live traced blocks per allocation site
    snapCount,     \* snapshots taken so far (identifies a snapshot)
    scope,         \* per tracer: "with" blocks entered and not yet left
    lastCall       \* the method call that has just returned and what it
                   \* did; NoCall once the traced program has run on

vars == <<constructed, workload, top, trace, nframe, gccollect, disabled, _start, _prev,
          tracing, frames, traces, snapCount, scope, lastCall>>

config == <<workload, top, trace, nframe, gccollect, disabled>>
facility == <<tracing, frames, traces, snapCount>>

\* ------------------------------------------------------- small utilities
Min(a, b) == IF a < b THEN a ELSE b
Max(a, b) == IF a < b THEN b ELSE a
Abs(a) == IF a < 0 THEN -a ELSE a

\* No truncation at all.
C8_PySliceKeepsAll(seq, n) == seq

\* seq[:n] of Python, for any integer n.
PySlice(seq, n) ==
    IF n >= 0 THEN SubSeq(seq, 1, Min(n, Len(seq)))
    ELSE SubSeq(seq, 1, Max(Len(seq) + n, 0))

\* ------------------------------------------------ collaborator call records
\* One entry of lastCall.events: a call made to a collaborator, its
\* arguments and what it returned.
Event(c, a, r) == [call |-> c, arg |-> a, ret |-> r]

\* A collaborator call that raised instead of returning.
Raised == "raised"

\* A method call: the tracer, the method, its argument (the exc_type of
\* __exit__, "" otherwise), "ok" or the exception raised, and the calls made
\* to the collaborators, in order.
Call(t, op, arg, result, events) ==
    [tracer |-> t, op |-> op, arg |-> arg, result |-> result, events |-> events]

NoCall == Call("", "", "", "ok", <<>>)

RecordArg(t, op, arg, result, events) == lastCall' = Call(t, op, arg, result, events)

Record(t, op, result, events) == RecordArg(t, op, "", result, events)

\* ------------------------------------------------------------ tracemalloc
\* The traceback tracemalloc stores for a block: at most `limit` frames.
Traceback(site, limit) == SubSeq(site, 1, Min(limit, Len(site)))

\* Snapshot._group_by: the key a trace is grouped under.
KeyOf(site, key_type, limit) ==
    CASE key_type = "filename" -> << <<site[1][1], 0>> >>
      [] key_type = "lineno" -> << site[1] >>
      [] OTHER -> Traceback(site, limit)

RECURSIVE SetSum(_, _)
SetSum(S, f) ==
    IF S = {} THEN 0
    ELSE LET x == CHOOSE y \in S : TRUE
         IN  f[x] + SetSum(S \ {x}, f)

\* The keys that have at least one live block in a snapshot.
GroupKeys(snap, key_type) ==
    { KeyOf(s, key_type, snap.traceback_limit) : s \in {x \in Sites : snap.traces[x] > 0} }

GroupSites(snap, key_type, k) ==
    { s \in Sites : KeyOf(s, key_type, snap.traceback_limit) = k }

GroupCount(snap, key_type, k) ==
    SetSum(GroupSites(snap, key_type, k), snap.traces)

GroupSize(snap, key_type, k) ==
    SetSum(GroupSites(snap, key_type, k),
           [s \in Sites |-> snap.traces[s] * BlockSize(s)])

RECURSIVE Flatten(_)
Flatten(tb) ==
    IF tb = <<>> THEN <<>> ELSE <<tb[1][1], tb[1][2]>> \o Flatten(Tail(tb))

\* Python's tuple order on the sort keys (sequences of integers).
RECURSIVE SeqLess(_, _)
SeqLess(a, b) ==
    IF a = <<>> THEN b # <<>>
    ELSE IF b = <<>> THEN FALSE
    ELSE IF a[1] # b[1] THEN a[1] < b[1]
    ELSE SeqLess(Tail(a), Tail(b))

\* sorted(..., reverse=True) of a set of [row, key] pairs with distinct keys.
RECURSIVE SortedDesc(_)
SortedDesc(S) ==
    IF S = {} THEN <<>>
    ELSE LET m == CHOOSE x \in S : \A y \in S \ {x} : SeqLess(y.key, x.key)
         IN  <<m.row>> \o SortedDesc(S \ {m})

\* tracemalloc.StatisticDiff and its _sort_key.
StatisticDiff(new, old, key_type, k) ==
    [traceback |-> k,
     size |-> GroupSize(new, key_type, k),
     size_diff |-> GroupSize(new, key_type, k) - GroupSize(old, key_type, k),
     count |-> GroupCount(new, key_type, k),
     count_diff |-> GroupCount(new, key_type, k) - GroupCount(old, key_type, k)]

DiffSortKey(d) ==
    <<Abs(d.size_diff), d.size, Abs(d.count_diff), d.count>> \o Flatten(d.traceback)

\* Snapshot.compare_to(old_snapshot, key_type): one row per key of either
\* snapshot, biggest change first.
compare_to(new, old, key_type) ==
    SortedDesc({ [row |-> StatisticDiff(new, old, key_type, k),
                  key |-> DiffSortKey(StatisticDiff(new, old, key_type, k))] :
                 k \in GroupKeys(new, key_type) \cup GroupKeys(old, key_type) })

\* tracemalloc.Statistic and its _sort_key.
Statistic(snap, key_type, k) ==
    [traceback |-> k,
     size |-> GroupSize(snap, key_type, k),
     count |-> GroupCount(snap, key_type, k)]

StatSortKey(st) == <<st.size, st.count>> \o Flatten(st.traceback)

\* Snapshot.statistics(key_type): one row per key, biggest first.
statistics(snap, key_type) ==
    SortedDesc({ [row |-> Statistic(snap, key_type, k),
                  key |-> StatSortKey(Statistic(snap, key_type, k))] :
                 k \in GroupKeys(snap, key_type) })

\* tracemalloc.take_snapshot() while tracing: the snapCount+1-th snapshot.
take_snapshot(live) ==
    [id |-> snapCount + 1, traces |-> live, traceback_limit |-> frames]

\* ----------------------------------------------------------- MemoryTracer
\* The arguments MemoryTracer.__init__ can be given.
Configs ==
    [top : 1..MaxTop, trace : 0..MaxTrace, nframe : {MaxFrames},
     gccollect : BOOLEAN, disabled : BOOLEAN]

\* The arguments the tracers of a multi-tracer program are given: any of
\* them may be disabled, the other arguments are the largest of Configs.
SessionConfigs ==
    { c \in Configs : /\ c.top = MaxTop /\ c.trace = MaxTrace
                      /\ c.nframe = MaxFrames /\ c.gccollect }

\* MemoryTracer.__init__ for each object of `objs`, with arguments args[t]:
\* stores the arguments, no snapshot, nothing else.
__init__(objs, args) ==
    /\ constructed = objs
    /\ top = [t \in objs |-> args[t].top]
    /\ trace = [t \in objs |-> args[t].trace]
    /\ nframe = [t \in objs |-> args[t].nframe]
    /\ gccollect = [t \in objs |-> args[t].gccollect]
    /\ disabled = [t \in objs |-> args[t].disabled]
    /\ _start = [t \in objs |-> None]
    /\ _prev = [t \in objs |-> None]

\* A start() that keeps the snapshot in _start only.
C9_StartSessionPrevUnset(t, op) ==
    /\ snapCount < MaxSnapshots
    /\ tracing' = TRUE
    /\ frames' = nframe[t]
    /\ traces' = traces
    /\ snapCount' = snapCount + 1
    /\ LET snap == [id |-> snapCount + 1, traces |-> traces,
                    traceback_limit |-> nframe[t]]
       IN  /\ _start' = [_start EXCEPT ![t] = snap]
           /\ _prev' = _prev
           /\ Record(t, op, "ok",
                     <<Event("tracemalloc.is_tracing", <<>>, FALSE),
                       Event("log", <<"Starting memory tracer">>, <<>>),
                       Event("tracemalloc.start", nframe[t], <<>>),
                       Event("tracemalloc.take_snapshot", <<>>, snap.id)>>)

\* start() past its two guards: log, engage tracemalloc, take the snapshot
\* and keep it in _start and _prev.
StartSession(t, op) ==
    /\ snapCount < MaxSnapshots
    /\ tracing' = TRUE
    /\ frames' = nframe[t]
    /\ traces' = traces
    /\ snapCount' = snapCount + 1
    /\ LET snap == [id |-> snapCount + 1, traces |-> traces,
                    traceback_limit |-> nframe[t]]
       IN  /\ _start' = [_start EXCEPT ![t] = snap]
           /\ _prev' = [_prev EXCEPT ![t] = snap]
           /\ Record(t, op, "ok",
                     <<Event("tracemalloc.is_tracing", <<>>, FALSE),
                       Event("log", <<"Starting memory tracer">>, <<>>),
                       Event("tracemalloc.start", nframe[t], <<>>),
                       Event("tracemalloc.take_snapshot", <<>>, snap.id)>>)

\* A start() without the is_tracing() guard.
C1_StartBodyNoGuard(t, op) ==
    IF disabled[t]
    THEN /\ Record(t, op, "ok", <<>>)
         /\ UNCHANGED <<_start, _prev, facility>>
    ELSE StartSession(t, op)

\* A start() that drops the tracer's snapshots before it raises.
C15_StartBodyClearsOnError(t, op) ==
    IF disabled[t]
    THEN /\ Record(t, op, "ok", <<>>)
         /\ UNCHANGED <<_start, _prev, facility>>
    ELSE IF tracing
    THEN /\ Record(t, op, "AlreadyTracingError",
                   <<Event("tracemalloc.is_tracing", <<>>, TRUE)>>)
         /\ _start' = [_start EXCEPT ![t] = None]
         /\ _prev' = [_prev EXCEPT ![t] = None]
         /\ UNCHANGED facility
    ELSE StartSession(t, op)

\* The body of MemoryTracer.start, called as method `op`.
StartBody(t, op) ==
    IF disabled[t]
    THEN /\ Record(t, op, "ok", <<>>)
         /\ UNCHANGED <<_start, _prev, facility>>
    ELSE IF tracing
    THEN /\ Record(t, op, "AlreadyTracingError",
                   <<Event("tracemalloc.is_tracing", <<>>, TRUE)>>)
         /\ UNCHANGED <<_start, _prev, facility>>
    ELSE StartSession(t, op)

\* A stop() that leaves tracemalloc tracing.
C17_StopSessionKeepsTracing(t, op, arg) ==
    /\ _start' = [_start EXCEPT ![t] = None]
    /\ _prev' = [_prev EXCEPT ![t] = None]
    /\ UNCHANGED facility
    /\ RecordArg(t, op, arg, "ok",
                 <<Event("log", <<"Stopped memory tracer">>, <<>>)>>)

\* What stop() does on an enabled tracer.
StopSession(t, op, arg) ==
    /\ _start' = [_start EXCEPT ![t] = None]
    /\ _prev' = [_prev EXCEPT ![t] = None]
    /\ tracing' = FALSE
    /\ frames' = 0
    /\ traces' = NoTraces
    /\ snapCount' = snapCount
    /\ RecordArg(t, op, arg, "ok",
                 <<Event("tracemalloc.stop", <<>>, <<>>),
                   Event("log", <<"Stopped memory tracer">>, <<>>)>>)

\* A stop() without the `disabled` guard.
C6_StopBodyNoGuard(t, op, arg) == StopSession(t, op, arg)

\* A stop() that raises when the tracer has no session.
C7_StopBodyStrict(t, op, arg) ==
    IF disabled[t]
    THEN /\ RecordArg(t, op, arg, "ok", <<>>)
         /\ UNCHANGED <<_start, _prev, facility>>
    ELSE IF _start[t] = None
    THEN /\ RecordArg(t, op, arg, "RuntimeError", <<>>)
         /\ UNCHANGED <<_start, _prev, facility>>
    ELSE StopSession(t, op, arg)

\* A stop() that forgets to clear _prev.
C10_StopBodyKeepsPrev(t, op, arg) ==
    IF disabled[t]
    THEN /\ RecordArg(t, op, arg, "ok", <<>>)
         /\ UNCHANGED <<_start, _prev, facility>>
    ELSE /\ _start' = [_start EXCEPT ![t] = None]
         /\ _prev' = _prev
         /\ tracing' = FALSE
         /\ frames' = 0
         /\ traces' = NoTraces
         /\ snapCount' = snapCount
         /\ RecordArg(t, op, arg, "ok",
                      <<Event("tracemalloc.stop", <<>>, <<>>),
                        Event("log", <<"Stopped memory tracer">>, <<>>)>>)

\* The body of MemoryTracer.stop, called as method `op` with argument `arg`.
StopBody(t, op, arg) ==
    IF disabled[t]
    THEN /\ RecordArg(t, op, arg, "ok", <<>>)
         /\ UNCHANGED <<_start, _prev, facility>>
    ELSE StopSession(t, op, arg)

start(t) ==
    /\ t \in constructed
    /\ StartBody(t, "start")
    /\ UNCHANGED <<constructed, config, scope>>

stop(t) ==
    /\ t \in constructed
    /\ StopBody(t, "stop", "")
    /\ UNCHANGED <<constructed, config, scope>>

\* A "with" statement that runs __exit__ also when __enter__ raised.
C19_EnterAlwaysInScope(t) ==
    /\ t \in constructed
    /\ scope[t] < MaxScopeDepth
    /\ StartBody(t, "__enter__")
    /\ scope' = [scope EXCEPT ![t] = @ + 1]
    /\ UNCHANGED <<constructed, config>>

\* "with tracer:" entered: __enter__ calls start(); the block is entered
\* only when start() did not raise.
__enter__(t) ==
    /\ t \in constructed
    /\ scope[t] < MaxScopeDepth
    /\ StartBody(t, "__enter__")
    /\ scope' = [scope EXCEPT ![t] = IF lastCall'.result = "ok" THEN @ + 1 ELSE @]
    /\ UNCHANGED <<constructed, config>>

\* An __exit__ that calls stop() only when the block ended normally.
C3_ExitSkipsStopOnError(t, exc_type) ==
    /\ t \in constructed
    /\ scope[t] > 0
    /\ IF exc_type = "None"
       THEN StopBody(t, "__exit__", exc_type)
       ELSE /\ RecordArg(t, "__exit__", exc_type, "ok", <<>>)
            /\ UNCHANGED <<_start, _prev, facility>>
    /\ scope' = [scope EXCEPT ![t] = @ - 1]
    /\ UNCHANGED <<constructed, config>>

\* The "with" block left, normally (exc_type = "None") or by an exception
\* of the guarded code: __exit__ calls stop() and returns None.
__exit__(t, exc_type) ==
    /\ t \in constructed
    /\ scope[t] > 0
    /\ StopBody(t, "__exit__", exc_type)
    /\ scope' = [scope EXCEPT ![t] = @ - 1]
    /\ UNCHANGED <<constructed, config>>

\* MemoryTracer._format_stats: the rows numbered from 1.
_format_stats(stats) == [i \in 1..Len(stats) |-> <<i, stats[i]>>]

\* "%.1f" % (size / 1024), in tenths of a KiB (round half to even).
FormatKiB(size) ==
    LET q == (size * 10) \div 1024
        r == (size * 10) % 1024
    IN  IF r > 512 \/ (r = 512 /\ q % 2 = 1) THEN q + 1 ELSE q

\* What gc.collect() may leave of the live blocks: it frees any of them.
GcOutcomes(live) == { g \in [Sites -> 0..MaxBlocks] : \A s \in Sites : g[s] <= live[s] }

\* The live blocks gc.collect() can leave, whatever was live.
Collected == [Sites -> 0..MaxBlocks]

\* The collaborator update() finds failing, if any.
Faults == {"none", "gc", "snapshot", "log"}

\* The log calls of update() for the tracebacks of the current snapshot.
TraceLogs(t, current) ==
    LET shown == PySlice(statistics(current, "traceback"), trace[t])
    IN  [i \in 1..Len(shown) |->
            Event("log", <<"memory_blocks=%s size_KiB=%.1f\n%s", shown[i].count,
                           FormatKiB(shown[i].size), shown[i].traceback>>, <<>>)]

\* Cumulative statistics compared to the last saved snapshot.
C4_CumulativeFromPrev(t) == _prev[t]

\* The snapshot the cumulative statistics are compared to.
CumulativeBase(t) == _start[t]

\* Incremental statistics compared to the starting snapshot.
C12_IncrementalFromStart(t) == _start[t]

\* The snapshot the incremental statistics are compared to.
IncrementalBase(t) == _prev[t]

\* An update() that never moves _prev.
C5_NextPrevStays(t, current) == _prev[t]

\* The value update() leaves in _prev.
NextPrev(t, current) == current

\* The snapshot is taken before the collection.
C11_SnapshotThenCollect(gcev, snapev) == snapev \o gcev

\* update() up to its snapshot: gc.collect(), if asked for, has returned
\* when take_snapshot() is called.
BeforeReports(gcev, snapev) == gcev \o snapev

\* A failed collaborator call makes update() forget its last snapshot.
C14_PropagateResetsPrev(t, result, events) ==
    /\ Record(t, "update", result, events)
    /\ _prev' = [_prev EXCEPT ![t] = _start[t]]
    /\ UNCHANGED snapCount

\* gc.collect() or take_snapshot() raised: the exception leaves update() at
\* once, nothing after the call is executed.
Propagate(t, result, events) ==
    /\ Record(t, "update", result, events)
    /\ UNCHANGED <<_prev, snapCount>>

\* A comparison that takes None for an empty snapshot.
C16_AbsentTolerated(snap) == FALSE

\* compare_to(None, ...) raises AttributeError.
Absent(snap) == snap = None

\* _prev is assigned before the reports are logged.
C13_PrevAssignedFirst(t, current) == current

\* The value of _prev when a log call of update() raised: the assignment
\* that ends update() was not reached.
PrevOnLogFailure(t, current) == _prev[t]

\* The log sink raises in the last log call of update(): the calls up to
\* that one are made, none after it.
LogRaises(events) ==
    LET logs == {i \in 1..Len(events) : events[i].call = "log"}
        last == CHOOSE i \in logs : \A j \in logs : j <= i
    IN  [SubSeq(events, 1, last) EXCEPT ![last].ret = Raised]

\* MemoryTracer.update.  `fault` makes a collaborator fail ("gc": gc.collect
\* raises; "snapshot": take_snapshot raises; "log": the last log call
\* raises); `collected` is what is live after gc.collect().
update(t, fault, collected) ==
    /\ t \in constructed
    /\ UNCHANGED <<constructed, config, scope, _start, tracing, frames>>
    /\ IF disabled[t]
       THEN /\ fault = "none" /\ collected = traces
            /\ Record(t, "update", "ok", <<>>)
            /\ UNCHANGED <<_prev, traces, snapCount>>
       ELSE LET gcev == IF gccollect[t]
                        THEN <<Event("gc.collect", <<>>, <<>>)>> ELSE <<>>
                current == take_snapshot(collected)
                snapev == <<Event("tracemalloc.take_snapshot", <<>>, current.id)>>
            IN
            /\ IF gccollect[t] /\ fault # "gc"
               THEN collected \in GcOutcomes(traces) ELSE collected = traces
            /\ fault = "gc" => gccollect[t]
            /\ traces' = collected
            /\ IF fault = "gc"
               THEN Propagate(t, "CollaboratorError",
                              <<Event("gc.collect", <<>>, Raised)>>)
               ELSE IF fault = "snapshot" \/ ~tracing
               THEN Propagate(t, IF fault = "snapshot" THEN "CollaboratorError"
                                 ELSE "NotTracingError",
                              BeforeReports(gcev,
                                  <<Event("tracemalloc.take_snapshot", <<>>, Raised)>>))
               ELSE /\ snapCount < MaxSnapshots
                    /\ snapCount' = snapCount + 1
                    /\ IF Absent(CumulativeBase(t))
                       THEN /\ fault = "none"
                            /\ Record(t, "update", "AttributeError",
                                 BeforeReports(gcev, snapev) \o
                                 <<Event("compare_to", <<current.id, 0, "filename">>, Raised)>>)
                            /\ UNCHANGED _prev
                       ELSE IF Absent(IncrementalBase(t))
                       THEN /\ fault = "none"
                            /\ Record(t, "update", "AttributeError",
                                 BeforeReports(gcev, snapev) \o
                                 <<Event("compare_to",
                                         <<current.id, CumulativeBase(t).id, "filename">>,
                                         compare_to(current, CumulativeBase(t), "filename")),
                                   Event("compare_to", <<current.id, 0, "lineno">>, Raised)>>)
                            /\ UNCHANGED _prev
                       ELSE LET cumulative_stats ==
                                    compare_to(current, CumulativeBase(t), "filename")
                                incremental_stats ==
                                    compare_to(current, IncrementalBase(t), "lineno")
                                events ==
                                 BeforeReports(gcev, snapev) \o
                                 <<Event("compare_to",
                                         <<current.id, CumulativeBase(t).id, "filename">>,
                                         cumulative_stats),
                                   Event("compare_to",
                                         <<current.id, IncrementalBase(t).id, "lineno">>,
                                         incremental_stats),
                                   Event("log", <<"Top cumulative stats since start:\n%s",
                                         _format_stats(PySlice(cumulative_stats, top[t]))>>, <<>>),
                                   Event("log", <<"Top incremental stats since previous:\n%s",
                                         _format_stats(PySlice(incremental_stats, top[t]))>>, <<>>),
                                   Event("statistics", <<current.id, "filename">>,
                                         statistics(current, "filename")),
                                   Event("log", <<"Top current stats:\n%s",
                                         _format_stats(PySlice(statistics(current, "filename"),
                                                               top[t]))>>, <<>>),
                                   Event("statistics", <<current.id, "traceback">>,
                                         statistics(current, "traceback"))>>
                                 \o TraceLogs(t, current)
                            IN
                            IF fault = "log"
                            THEN /\ Record(t, "update", "LogError", LogRaises(events))
                                 /\ _prev' = [_prev EXCEPT ![t] = PrevOnLogFailure(t, current)]
                            ELSE /\ Record(t, "update", "ok", events)
                                 /\ _prev' = [_prev EXCEPT ![t] = NextPrev(t, current)]

\* ------------------------------------------------------- the traced program
\* The code between the tracer's calls allocates and frees blocks;
\* tracemalloc sees them only while it is tracing.
Allocate(s) ==
    /\ s \in workload
    /\ tracing
    /\ traces[s] < MaxBlocks
    /\ traces' = [traces EXCEPT ![s] = @ + 1]
    /\ lastCall' = NoCall
    /\ UNCHANGED <<constructed, config, _start, _prev, tracing, frames, snapCount, scope>>

Free(s) ==
    /\ traces[s] > 0
    /\ traces' = [traces EXCEPT ![s] = @ - 1]
    /\ lastCall' = NoCall
    /\ UNCHANGED <<constructed, config, _start, _prev, tracing, frames, snapCount, scope>>

\* ------------------------------------------------------------ specification
\* The process before any call: tracemalloc is not tracing.
Idle ==
    /\ tracing = FALSE
    /\ frames = 0
    /\ traces = NoTraces
    /\ snapCount = 0
    /\ scope = [t \in Tracers |-> 0]
    /\ lastCall = NoCall

\* A program with several tracers, allocating at one site.
Init ==
    /\ workload = { << <<2, 30>> >> }
    /\ \E args \in [Tracers -> SessionConfigs] : __init__(Tracers, args)
    /\ Idle

\* A program with one tracer, constructed with any arguments, allocating
\* at every site.
InitReports ==
    /\ workload = Sites
    /\ \E args \in [{"t1"} -> Configs] : __init__({"t1"}, args)
    /\ Idle

Next ==
    \/ \E t \in Tracers : start(t)
    \/ \E t \in Tracers : stop(t)
    \/ \E t \in Tracers : __enter__(t)
    \/ \E t \in Tracers, exc_type \in {"None", "Exception"} : __exit__(t, exc_type)
    \/ \E t \in Tracers, fault \in Faults, collected \in Collected : update(t, fault, collected)
    \/ \E s \in Sites : Allocate(s)
    \/ \E s \in Sites : Free(s)

Spec == Init /\ [][Next]_vars

SpecReports == InitReports /\ [][Next]_vars

\* ------------------------------------------------------------- properties
StartOps == {"start", "__enter__"}
StopOps == {"stop", "__exit__"}

\* The call that has just returned was made on an enabled tracer.
ByEnabled == lastCall.tracer \in constructed /\ ~disabled[lastCall.tracer]

\* The calls of the last method call to collaborator operation c, in order.
EventsOf(c) == SelectSeq(lastCall.events, LAMBDA e : e.call = c)

\* C1: on an enabled tracer a start() (also the one __enter__ makes) raises
\* AlreadyTracingError whenever tracemalloc is tracing when it is called, and
\* whenever the call just before it was a start() on the same tracer.
C1_ExclusiveStart ==
    [][ \A t \in constructed :
          ( /\ ~disabled[t]
            /\ lastCall'.tracer = t
            /\ lastCall'.op \in StartOps
            /\ \/ tracing
               \/ lastCall.tracer = t /\ lastCall.op \in StartOps )
          => lastCall'.result = "AlreadyTracingError" ]_vars

\* A start() has just failed on a tracer whose own start() succeeded and
\* which has not updated or stopped since.
C1_Witness ==
    /\ ByEnabled
    /\ lastCall.op = "start"
    /\ lastCall.result = "AlreadyTracingError"
    /\ _start[lastCall.tracer] # None
    /\ _prev[lastCall.tracer] = _start[lastCall.tracer]
    /\ tracing

\* C2: at most one tracer holds a baseline snapshot (is between its
\* successful start() and its stop()) in any reachable state.
C2_SingleSession ==
    Cardinality({ t \in constructed : _start[t] # None }) <= 1

\* C3: when the "with" block of an enabled tracer has been left, normally or
\* by an exception, __exit__ has called tracemalloc.stop() and tracemalloc is
\* not tracing.
C3_ScopedCleanup ==
    (ByEnabled /\ lastCall.op = "__exit__")
    => /\ ~tracing
       /\ lastCall.result = "ok"
       /\ Len(EventsOf("tracemalloc.stop")) = 1

\* The block of an enabled tracer has been left by an exception after a
\* start() and at least one more snapshot (an update()).
C3_Witness ==
    /\ ByEnabled
    /\ lastCall.op = "__exit__"
    /\ lastCall.arg = "Exception"
    /\ snapCount >= 2
    /\ scope[lastCall.tracer] = 0
    /\ ~tracing

\* The calls to collaborator operation c made by the call that returns in
\* the next state.
EventsOf2(c) == SelectSeq(lastCall'.events, LAMBDA e : e.call = c)

\* The snapshot taken by the call that returns in the next state.
Current2 == [id |-> snapCount', traces |-> traces', traceback_limit |-> frames]

\* C4: update() never changes _start, which only start() and stop() on the
\* same tracer assign; the cumulative statistics of every successful update()
\* are those of the snapshot it takes compared to _start, and they are what
\* the cumulative report shows.
C4_BaselineStability ==
    [][ \A t \in constructed :
          /\ (lastCall'.tracer = t /\ lastCall'.op = "update")
             => _start'[t] = _start[t]
          /\ _start'[t] # _start[t]
             => lastCall'.tracer = t /\ lastCall'.op \in StartOps \cup StopOps
          /\ ( /\ lastCall'.tracer = t /\ lastCall'.op = "update"
               /\ ~disabled[t] /\ lastCall'.result = "ok" )
             => /\ EventsOf2("compare_to")[1].arg = <<snapCount', _start[t].id, "filename">>
                /\ EventsOf2("compare_to")[1].ret = compare_to(Current2, _start[t], "filename")
                /\ EventsOf2("log")[1].arg =
                      <<"Top cumulative stats since start:\n%s",
                        _format_stats(PySlice(compare_to(Current2, _start[t], "filename"),
                                              top[t]))>>
      ]_vars

\* A successful update() whose incremental statistics were compared to the
\* snapshot of an earlier update(), and its cumulative ones to _start.
C4_Witness ==
    /\ ByEnabled
    /\ lastCall.op = "update"
    /\ lastCall.result = "ok"
    /\ EventsOf("compare_to")[1].arg[2] = _start[lastCall.tracer].id
    /\ EventsOf("compare_to")[2].arg[2] # _start[lastCall.tracer].id
    /\ _start[lastCall.tracer].id + 2 <= _prev[lastCall.tracer].id

\* C5: the incremental statistics of every successful update() are those of
\* the snapshot it takes compared to _prev as the call finds it, and they are
\* what the incremental report shows; the call leaves the snapshot it took in
\* _prev, and a successful start() leaves the baseline there.
C5_IncrementalChaining ==
    [][ \A t \in constructed :
          /\ ( /\ lastCall'.tracer = t /\ lastCall'.op = "update"
               /\ ~disabled[t] /\ lastCall'.result = "ok" )
             => /\ EventsOf2("compare_to")[2].arg = <<snapCount', _prev[t].id, "lineno">>
                /\ EventsOf2("compare_to")[2].ret = compare_to(Current2, _prev[t], "lineno")
                /\ EventsOf2("log")[2].arg =
                      <<"Top incremental stats since previous:\n%s",
                        _format_stats(PySlice(compare_to(Current2, _prev[t], "lineno"),
                                              top[t]))>>
                /\ EventsOf2("tracemalloc.take_snapshot")[1].ret = snapCount'
                /\ snapCount' = snapCount + 1
                /\ _prev'[t] = Current2
          /\ ( /\ lastCall'.tracer = t /\ lastCall'.op \in StartOps
               /\ ~disabled[t] /\ lastCall'.result = "ok" )
             => _prev'[t] = _start'[t]
      ]_vars

\* The second successful update() of a session has returned: it compared to
\* the snapshot of the first one, and _prev holds the snapshot it took.
C5_Witness ==
    /\ ByEnabled
    /\ lastCall.op = "update"
    /\ lastCall.result = "ok"
    /\ EventsOf("compare_to")[2].arg[2] = _start[lastCall.tracer].id + 1
    /\ _prev[lastCall.tracer].id = _start[lastCall.tracer].id + 2
    /\ _prev[lastCall.tracer].traces # NoTraces

\* C6: a disabled tracer never holds a snapshot; each of its calls returns
\* normally without calling any collaborator (tracemalloc, gc, the log), and
\* leaves tracemalloc and every tracer's snapshots as they were.
C6_DisabledNoOp ==
    /\ [](\A t \in constructed : disabled[t] => _start[t] = None /\ _prev[t] = None)
    /\ []( (lastCall.tracer \in constructed /\ disabled[lastCall.tracer])
           => (lastCall.result = "ok" /\ lastCall.events = <<>>) )
    /\ [][ \A t \in constructed :
             (disabled[t] /\ lastCall'.tracer = t)
             => UNCHANGED <<tracing, frames, traces, snapCount, _start, _prev>> ]_vars

\* update() has returned on a disabled tracer constructed with gccollect,
\* while tracemalloc is tracing for another tracer.
C6_Witness ==
    /\ lastCall.tracer \in constructed
    /\ disabled[lastCall.tracer]
    /\ gccollect[lastCall.tracer]
    /\ lastCall.op = "update"
    /\ tracing
    /\ \E t \in constructed : _start[t] # None

\* C7: a stop() (also the one __exit__ makes) on an enabled tracer that holds
\* no snapshot, or while tracemalloc is not tracing, returns normally and
\* leaves tracemalloc not tracing.
C7_LenientStop ==
    [][ \A t \in constructed :
          ( /\ ~disabled[t]
            /\ lastCall'.tracer = t
            /\ lastCall'.op \in StopOps
            /\ (~tracing \/ _start[t] = None) )
          => (lastCall'.result = "ok" /\ ~tracing') ]_vars

\* stop() has returned normally on an enabled tracer before any start().
C7_Witness ==
    /\ ByEnabled
    /\ lastCall.op = "stop"
    /\ lastCall.result = "ok"
    /\ snapCount = 0
    /\ ~tracing

\* C8: after a successful update() each of the three reports has at most
\* `top` rows, and at most `trace` traceback reports follow them.
C8_RowTruncation ==
    (ByEnabled /\ lastCall.op = "update" /\ lastCall.result = "ok")
    => /\ Len(EventsOf("log")) >= 3
       /\ \A i \in 1..3 : Len(EventsOf("log")[i].arg[2]) <= top[lastCall.tracer]
       /\ Len(EventsOf("log")) - 3 <= trace[lastCall.tracer]

\* A successful update() for which tracemalloc returned more rows than `top`
\* for each report and more tracebacks than `trace`.
C8_Witness ==
    /\ ByEnabled
    /\ lastCall.op = "update"
    /\ lastCall.result = "ok"
    /\ \A i \in 1..2 : Len(EventsOf("compare_to")[i].ret) > top[lastCall.tracer]
    /\ \A i \in 1..2 : Len(EventsOf("statistics")[i].ret) > top[lastCall.tracer]
    /\ Len(EventsOf("statistics")[2].ret) > trace[lastCall.tracer]
    /\ Len(EventsOf("log")[1].arg[2]) = top[lastCall.tracer]

\* C9: a successful start() on an enabled tracer logs the start line, starts
\* tracemalloc with nframe and then takes one snapshot, in that order; on
\* return tracemalloc is tracing with that limit and _start and _prev are
\* both the snapshot taken, the latest one.
C9_StartEffect ==
    (ByEnabled /\ lastCall.op \in StartOps /\ lastCall.result = "ok")
    => /\ lastCall.events =
            <<Event("tracemalloc.is_tracing", <<>>, FALSE),
              Event("log", <<"Starting memory tracer">>, <<>>),
              Event("tracemalloc.start", nframe[lastCall.tracer], <<>>),
              Event("tracemalloc.take_snapshot", <<>>, snapCount)>>
       /\ tracing
       /\ frames = nframe[lastCall.tracer]
       /\ _start[lastCall.tracer] =
            [id |-> snapCount, traces |-> traces, traceback_limit |-> nframe[lastCall.tracer]]
       /\ _prev[lastCall.tracer] = _start[lastCall.tracer]
       /\ _start[lastCall.tracer] # None

\* start() has just succeeded on an enabled tracer.
C9_Witness ==
    /\ ByEnabled
    /\ lastCall.op = "start"
    /\ lastCall.result = "ok"
    /\ tracing
    /\ _start[lastCall.tracer].id = snapCount

\* C10: after construction no tracer holds a snapshot, tracemalloc is not
\* tracing and nothing was logged; a snapshot becomes present only by a
\* successful start() on that tracer; after every stop() on an enabled tracer
\* both snapshots are absent, tracemalloc is not tracing and the stop line is
\* the last thing logged.
C10_SnapshotLifecycle ==
    /\ ( /\ \A t \in constructed : _start[t] = None /\ _prev[t] = None
         /\ ~tracing /\ snapCount = 0 /\ lastCall.events = <<>> )
    /\ [][ \A t \in constructed :
             ( \/ _start[t] = None /\ _start'[t] # None
               \/ _prev[t] = None /\ _prev'[t] # None )
             => ( /\ lastCall'.tracer = t /\ lastCall'.op \in StartOps
                  /\ lastCall'.result = "ok" ) ]_vars
    /\ []( (ByEnabled /\ lastCall.op \in StopOps)
           => /\ _start[lastCall.tracer] = None
              /\ _prev[lastCall.tracer] = None
              /\ ~tracing
              /\ lastCall.events # <<>>
              /\ lastCall.events[Len(lastCall.events)] =
                    Event("log", <<"Stopped memory tracer">>, <<>>) )

\* stop() has returned on an enabled tracer after a session in which at least
\* one more snapshot was taken.
C10_Witness ==
    /\ ByEnabled
    /\ lastCall.op = "stop"
    /\ snapCount >= 2
    /\ _start[lastCall.tracer] = None
    /\ _prev[lastCall.tracer] = None
    /\ ~tracing

\* C11: every update() of an enabled tracer constructed with gccollect calls
\* gc.collect() exactly once, first, and takes its snapshot (at most one)
\* only after that call has returned; without gccollect it never calls
\* gc.collect().
C11_CollectBeforeSnapshot ==
    (ByEnabled /\ lastCall.op = "update")
    => IF gccollect[lastCall.tracer]
       THEN /\ Len(EventsOf("gc.collect")) = 1
            /\ lastCall.events[1].call = "gc.collect"
            /\ Len(EventsOf("tracemalloc.take_snapshot")) <= 1
            /\ EventsOf("tracemalloc.take_snapshot") # <<>>
               => /\ lastCall.events[1].ret # Raised
                  /\ lastCall.events[2].call = "tracemalloc.take_snapshot"
       ELSE EventsOf("gc.collect") = <<>>

\* A successful update() of a tracer constructed with gccollect: the
\* collection, then the snapshot, the latest one.
C11_Witness ==
    /\ ByEnabled
    /\ lastCall.op = "update"
    /\ lastCall.result = "ok"
    /\ gccollect[lastCall.tracer]
    /\ lastCall.events[1].call = "gc.collect"
    /\ lastCall.events[2].call = "tracemalloc.take_snapshot"
    /\ lastCall.events[2].ret = snapCount

\* C12: when a successful update() follows a successful update() of the same
\* tracer with no allocation, no release and no stop in between, every row of
\* its incremental statistics has size and count difference 0, these rows are
\* what its incremental report shows, and its cumulative report is the
\* cumulative report of the earlier update().
C12_NoGrowthBetweenUpdates ==
    [][ \A t \in constructed :
          ( /\ ~disabled[t]
            /\ lastCall.tracer = t /\ lastCall.op = "update" /\ lastCall.result = "ok"
            /\ lastCall'.tracer = t /\ lastCall'.op = "update" /\ lastCall'.result = "ok"
            /\ traces' = traces )
          => /\ \A i \in 1..Len(EventsOf2("compare_to")[2].ret) :
                   /\ EventsOf2("compare_to")[2].ret[i].size_diff = 0
                   /\ EventsOf2("compare_to")[2].ret[i].count_diff = 0
             /\ EventsOf2("log")[2].arg[2] =
                   _format_stats(PySlice(EventsOf2("compare_to")[2].ret, top[t]))
             /\ EventsOf2("log")[1].arg = EventsOf("log")[1].arg
             /\ EventsOf2("compare_to")[1].ret = EventsOf("compare_to")[1].ret
      ]_vars

\* The second successful update() of a session: its incremental statistics
\* have a row, all of them without any difference, and its cumulative
\* statistics show a growth since the baseline.
C12_Witness ==
    /\ ByEnabled
    /\ lastCall.op = "update"
    /\ lastCall.result = "ok"
    /\ EventsOf("compare_to")[2].arg[2] = _start[lastCall.tracer].id + 1
    /\ EventsOf("compare_to")[2].ret # <<>>
    /\ \A i \in 1..Len(EventsOf("compare_to")[2].ret) :
          EventsOf("compare_to")[2].ret[i].size_diff = 0
    /\ EventsOf("compare_to")[1].ret # <<>>
    /\ EventsOf("compare_to")[1].ret[1].size_diff > 0

LogFormats ==
    <<"Top cumulative stats since start:\n%s",
      "Top incremental stats since previous:\n%s",
      "Top current stats:\n%s">>

\* C13: a successful update() makes exactly these log calls, in this order:
\* the cumulative report, the incremental report, the current report, then
\* one traceback report for each of the first `trace` traceback groups of
\* the snapshot; it then leaves that snapshot in _prev.  When a log call
\* raises, _prev is not the snapshot just taken.
C13_ReportOrder ==
    /\ (ByEnabled /\ lastCall.op = "update" /\ lastCall.result = "ok")
       => /\ Len(EventsOf("log")) =
                3 + Min(trace[lastCall.tracer],
                        Len(statistics(_prev[lastCall.tracer], "traceback")))
          /\ \A i \in 1..3 : EventsOf("log")[i].arg[1] = LogFormats[i]
          /\ \A i \in 4..Len(EventsOf("log")) :
                EventsOf("log")[i].arg[1] = "memory_blocks=%s size_KiB=%.1f\n%s"
          /\ \A i \in 1..Len(EventsOf("log")) : EventsOf("log")[i].ret # Raised
          /\ _prev[lastCall.tracer].id = snapCount
    /\ (ByEnabled /\ lastCall.op = "update" /\ lastCall.result = "LogError")
       => _prev[lastCall.tracer].id # snapCount

\* A successful update() that logged the three reports and a traceback
\* report, of a snapshot with more traceback groups than `trace`.
C13_Witness ==
    /\ ByEnabled
    /\ lastCall.op = "update"
    /\ lastCall.result = "ok"
    /\ Len(EventsOf("log")) = 4
    /\ trace[lastCall.tracer] = 1
    /\ Len(statistics(_prev[lastCall.tracer], "traceback")) = 2

UpdateFailures == {"CollaboratorError", "NotTracingError"}

\* C14: an update() in which gc.collect() or take_snapshot() raises ends
\* with that call: it has called each of them at most once, compared and
\* logged nothing, and left _start and _prev of every tracer as they were;
\* the successful update() that follows it on the same tracer compares to
\* the _start and _prev the failed one left.
C14_CollaboratorFailure ==
    [][ \A t \in constructed :
          /\ ( /\ lastCall'.tracer = t /\ lastCall'.op = "update"
               /\ lastCall'.result \in UpdateFailures )
             => /\ _start' = _start
                /\ _prev' = _prev
                /\ EventsOf2("log") = <<>>
                /\ EventsOf2("compare_to") = <<>>
                /\ Len(EventsOf2("gc.collect")) <= 1
                /\ Len(EventsOf2("tracemalloc.take_snapshot")) <= 1
                /\ lastCall'.events[Len(lastCall'.events)].call
                      \in {"gc.collect", "tracemalloc.take_snapshot"}
          /\ ( /\ lastCall.tracer = t /\ lastCall.op = "update"
               /\ lastCall.result \in UpdateFailures
               /\ lastCall'.tracer = t /\ lastCall'.op = "update"
               /\ lastCall'.result = "ok" )
             => /\ EventsOf2("compare_to")[1].arg[2] = _start[t].id
                /\ EventsOf2("compare_to")[2].arg[2] = _prev[t].id
      ]_vars

\* take_snapshot() raised, after gc.collect() returned, in an update() of a
\* tracer whose earlier update() succeeded: _prev is still that update's
\* snapshot.
C14_Witness ==
    /\ ByEnabled
    /\ lastCall.op = "update"
    /\ lastCall.result = "CollaboratorError"
    /\ Len(lastCall.events) = 2
    /\ lastCall.events[2].call = "tracemalloc.take_snapshot"
    /\ _prev[lastCall.tracer].id > _start[lastCall.tracer].id

\* C15: a start() that raises AlreadyTracingError has only asked
\* is_tracing(): it logged nothing, did not start tracemalloc, took no
\* snapshot, left tracemalloc tracing and left _start and _prev of every
\* tracer as they were; when the tracer holds a baseline, the successful
\* update() that follows on it compares to that _start and _prev.
C15_FailedStartNoEffect ==
    [][ \A t \in constructed :
          /\ ( /\ lastCall'.tracer = t /\ lastCall'.op \in StartOps
               /\ lastCall'.result = "AlreadyTracingError" )
             => /\ UNCHANGED <<_start, _prev, facility>>
                /\ tracing'
                /\ Len(lastCall'.events) = 1
                /\ lastCall'.events[1].call = "tracemalloc.is_tracing"
          /\ ( /\ lastCall.tracer = t /\ lastCall.op \in StartOps
               /\ lastCall.result = "AlreadyTracingError"
               /\ _start[t] # None
               /\ lastCall'.tracer = t /\ lastCall'.op = "update"
               /\ lastCall'.result = "ok" )
             => /\ EventsOf2("compare_to")[1].arg[2] = _start[t].id
                /\ EventsOf2("compare_to")[2].arg[2] = _prev[t].id
      ]_vars

\* A second start() on the tracer of the session, after an update(), has
\* raised: the tracer holds its baseline and the later checkpoint.
C15_Witness ==
    /\ ByEnabled
    /\ lastCall.op = "start"
    /\ lastCall.result = "AlreadyTracingError"
    /\ tracing
    /\ _start[lastCall.tracer] # None
    /\ _prev[lastCall.tracer].id > _start[lastCall.tracer].id

\* C16: an update() of an enabled tracer that holds no baseline raises,
\* makes no log call, and leaves _start and _prev at None.
C16_UpdateWithoutSession ==
    (ByEnabled /\ lastCall.op = "update" /\ _start[lastCall.tracer] = None)
    => /\ lastCall.result # "ok"
       /\ lastCall.result \in UpdateFailures \cup {"AttributeError"}
       /\ EventsOf("log") = <<>>
       /\ _prev[lastCall.tracer] = None

\* An update() of a tracer without session while tracemalloc is tracing for
\* another tracer: the snapshot is taken and compare_to(None) raises.
C16_Witness ==
    /\ ByEnabled
    /\ lastCall.op = "update"
    /\ _start[lastCall.tracer] = None
    /\ lastCall.result = "AttributeError"
    /\ EventsOf("tracemalloc.take_snapshot") # <<>>
    /\ tracing

\* C17: in a program with one tracer, enabled, between calls: _start is
\* set exactly when _prev is set, and exactly when tracemalloc is tracing.
C17_StateCoherence ==
    \A t \in constructed :
       (constructed = {t} /\ ~disabled[t])
       => /\ (_start[t] # None) <=> (_prev[t] # None)
          /\ (_start[t] # None) <=> tracing

\* The only tracer has a session with a checkpoint later than the baseline,
\* and its last call, a start(), raised AlreadyTracingError.
C17_Witness ==
    /\ Cardinality(constructed) = 1
    /\ ByEnabled
    /\ lastCall.op \in StartOps
    /\ lastCall.result = "AlreadyTracingError"
    /\ tracing
    /\ _prev[lastCall.tracer] # None
    /\ _prev[lastCall.tracer] # _start[lastCall.tracer]

\* The first snapshot of the tracemalloc session that is running: the
\* latest baseline (a start() is what starts tracemalloc, and the stop() of
\* any tracer stops it).
SessionFirst ==
    LET ids == {_start[t].id : t \in constructed}
    IN  CHOOSE i \in ids : \A j \in ids : j <= i

\* C18: the snapshots a successful update() compares to were taken in the
\* tracemalloc session in which the update() is made: none is older than
\* the first snapshot of that session.
C18_SameSessionReports ==
    (ByEnabled /\ lastCall.op = "update" /\ lastCall.result = "ok")
    => /\ EventsOf("compare_to")[1].arg[2] >= SessionFirst
       /\ EventsOf("compare_to")[2].arg[2] >= SessionFirst

\* C19: an __enter__ that raises AlreadyTracingError does not enter the
\* block, so no __exit__ is due for it; tracemalloc keeps tracing and every
\* tracer keeps its _start and _prev; an update() that follows on another
\* tracer holding a baseline finds tracemalloc tracing and its snapshots
\* set.
C19_FailedScopeEntry ==
    [][ \A t \in constructed :
          /\ ( /\ lastCall'.tracer = t /\ lastCall'.op = "__enter__"
               /\ lastCall'.result = "AlreadyTracingError" )
             => /\ scope' = scope
                /\ tracing /\ tracing'
                /\ UNCHANGED <<_start, _prev, facility>>
                /\ EventsOf2("tracemalloc.stop") = <<>>
          /\ ( /\ lastCall.tracer = t /\ lastCall.op = "__enter__"
               /\ lastCall.result = "AlreadyTracingError"
               /\ lastCall'.op = "update"
               /\ lastCall'.tracer \in constructed \ {t}
               /\ ~disabled[lastCall'.tracer]
               /\ _start[lastCall'.tracer] # None )
             => lastCall'.result \notin {"NotTracingError", "AttributeError"}
      ]_vars

\* An __enter__ has raised AlreadyTracingError while another tracer holds
\* the session: the block is not entered, the other tracer keeps a baseline
\* and a later checkpoint.
C19_Witness ==
    /\ ByEnabled
    /\ lastCall.op = "__enter__"
    /\ lastCall.result = "AlreadyTracingError"
    /\ scope[lastCall.tracer] = 0
    /\ _start[lastCall.tracer] = None
    /\ tracing
    /\ \E u \in constructed \ {lastCall.tracer} :
          /\ _start[u] # None
          /\ _prev[u].id > _start[u].id

====
